---- MODULE Spec2Model ----
(***************************************************************************)
(* Model of the Unified Real Earnings & Withdrawal API (src/server.js).    *)
(*                                                                         *)
(* The server is a single Node.js event loop.  Every `await` on an RPC     *)
(* call is a point where the running handler yields and any other handler  *)
(* or timer callback may run; code between two awaits runs atomically.     *)
(* Each invocation of a handler (a timer tick, POST /execute, a            *)
(* withdrawal) is a call frame p \in Procs whose position is pc[p].        *)
(*                                                                         *)
(* Amounts of ETH are integers in units of 0.0001 ETH (the profit of one   *)
(* simulated trade); USD amounts are whole dollars.  At this granularity   *)
(* parseFloat(formatEther(x)) and parseEther(a.toFixed(18)) are exact.     *)
(*                                                                         *)
(* The Strategy Engine (src/unnamed/part_000) is a second program with its *)
(* own process and its own state; its variables stand beside the server's. *)
(* Spec runs the server with the engine as loaded, MonitorSpec runs the    *)
(* engine with the server as loaded.  Pool reserves are integers in units  *)
(* of 0.001 ETH, so that toFixed(2) rounds.                                *)
(***************************************************************************)
EXTENDS Integers, Sequences, FiniteSets, TLC

\* ------------------------------------------------------------------ bounds
MaxCalls == 2          \* handler invocations in one behaviour
MaxGas == 1            \* largest fee of one mined transfer, in units
MaxTicks == 2          \* monitor ticks in one behaviour
MaxHeight == 2         \* largest block height an endpoint reports

\* ------------------------------------------------------ program constants
UnitsPerEth == 10000
ETH_PRICE == 3450
MIN_GAS_ETH == 100
REAL_ETH_PROFIT_PER_TRADE == 1
STRATEGIES_PER_EXECUTION == 1000000
STRATEGIES_length == 450
RESERVED_FLOOR == 30
GAS_LIMIT == 25000
ReservePerEth == 1000
HEALTHY_THRESHOLD == 10500000

AGGREGATE_PROFIT_ETH == REAL_ETH_PROFIT_PER_TRADE * STRATEGIES_PER_EXECUTION
\* eth * ETH_PRICE in whole dollars (lines 40 and 354), computed in two
\* parts so that no intermediate product leaves the 32-bit integers
ToUSD(eth) ==
    (eth \div UnitsPerEth) * ETH_PRICE
        + ((eth % UnitsPerEth) * ETH_PRICE) \div UnitsPerEth
AGGREGATE_PROFIT_USD == ToUSD(AGGREGATE_PROFIT_ETH)

COINBASE_WALLET == "coinbase"
TREASURY == "treasury"             \* signer.address

\* ------------------------------------------------------------ input sets
Procs == 1..MaxCalls
\* treasury balance on chain at start-up: below the gas floor, between the
\* gas floor and one batch's profit, and above one batch's profit
InitBalances == {50, 150, AGGREGATE_PROFIT_ETH + 150}
\* a field of the withdrawal request body: <<>> is absent (parseFloat gives
\* NaN), <<v>> is the number v
AmountInputs == {<<>>, <<0>>, <<-10>>, <<40>>}

Null == [kind |-> "null"]

\* the frames of monitorLiquidityPools, and what getBlockNumber may answer
Ticks == 1..MaxTicks
Heights == 1..MaxHeight
\* line 106, Math.random() * 1000 + 10000: the threshold itself, and a
\* reading above the threshold that toFixed(2) rounds onto it
Reserves == {HEALTHY_THRESHOLD, HEALTHY_THRESHOLD + 4}
\* lines 48-52, by name
LIQUIDITY_POOLS == <<"Uniswap V3 ETH/USDC", "Curve 3Crv", "Aave V3 ETH Market">>

VARIABLES
    hasKey,                    \* PRIVATE_KEY is set in the environment
    provider,                  \* provider # null
    signer,                    \* signer # null
    chainBalance,              \* treasury balance on chain
    txs,                       \* transactions accepted by the network
    blockHeight,               \* chain height
    currentStrategyIndex,
    totalStrategiesExecuted,
    totalEarnings,
    totalRealizedToTreasury,
    lastExecutionResult,
    clock,                     \* source of new Date()
    pc,                        \* position of each call frame
    op,                        \* what each call frame runs
    loc,                       \* locals of each call frame
    ret,                       \* value returned / JSON body sent
    http,                      \* HTTP status sent (0: none)
    \* ---- the Strategy Engine (part_000)
    engineProvider,            \* its `provider` # null
    currentBlock,
    monitorStatus,
    lastMonitorRun,
    simulatedReserve,          \* the readings drawn by the last loop
    engineClock,               \* its source of new Date()
    mpc,                       \* position of each monitor frame
    blockNum,                  \* `blockNum` of each monitor frame (0: unset)
    answer                     \* JSON body of the last HTTP answer

chainVars == <<chainBalance, txs, blockHeight>>
connVars == <<provider, signer>>
counters == <<currentStrategyIndex, totalStrategiesExecuted, totalEarnings>>
frameVars == <<pc, op, loc, ret, http>>
serverVars == <<hasKey, provider, signer, chainBalance, txs, blockHeight,
                currentStrategyIndex, totalStrategiesExecuted, totalEarnings,
                totalRealizedToTreasury, lastExecutionResult, clock,
                pc, op, loc, ret, http>>
engineVars == <<engineProvider, currentBlock, monitorStatus, lastMonitorRun,
                simulatedReserve, engineClock, mpc, blockNum, answer>>
vars == <<serverVars, engineVars>>

\* locals of a call frame: ethAmount and balance of the handler or of
\* executeStrategyTrade; amountETH, recipient, teBalance (`balance`, -1 while
\* unassigned) and tx of transferEth
NoLocals == [ethAmount |-> 0, balance |-> 0, amountETH |-> 0,
             recipient |-> "none", teBalance |-> -1, tx |-> 0]

\* part_000 lines 54-57: the engine as loaded, before its start-up
EngineLoaded ==
    /\ engineProvider = FALSE
    /\ currentBlock = 0
    /\ monitorStatus = "initializing"
    /\ lastMonitorRun = Null
    /\ simulatedReserve = [i \in DOMAIN LIQUIDITY_POOLS |-> 0]
    /\ engineClock = 1
    /\ mpc = [m \in Ticks |-> "idle"]
    /\ blockNum = [m \in Ticks |-> 0]
    /\ answer = Null

\* State after initProvider() has resolved at start-up (line 377): the
\* connection attempt either succeeded or failed.
Init ==
    /\ EngineLoaded
    /\ hasKey \in BOOLEAN
    /\ provider \in BOOLEAN
    /\ signer = (provider /\ hasKey)
    /\ chainBalance \in InitBalances
    /\ txs = <<>>
    /\ blockHeight = 1
    /\ currentStrategyIndex = 0
    /\ totalStrategiesExecuted = 0
    /\ totalEarnings = 0
    /\ totalRealizedToTreasury = 0
    /\ lastExecutionResult = Null
    /\ clock = 1
    /\ pc = [p \in Procs |-> "idle"]
    /\ op = [p \in Procs |-> "none"]
    /\ loc = [p \in Procs |-> NoLocals]
    /\ ret = [p \in Procs |-> Null]
    /\ http = [p \in Procs |-> 0]

\* ------------------------------------------------------------ small helpers
\* parseFloat(f): a present number, else NaN, which `||` treats as falsy
Truthy(f) == f # <<>> /\ f[1] # 0
\* line 324: parseFloat(amountETH) || parseFloat(amount) || 0
ParseAmount(amountETH, amount) ==
    IF Truthy(amountETH) THEN amountETH[1]
    ELSE IF Truthy(amount) THEN amount[1] ELSE 0

\* the index moves once per batch instead of once per simulated trade
BatchIndex_OncePerBatch(idx) == (idx + 1) % STRATEGIES_length

\* the executed-strategies counter moves once per batch
BatchCount_OncePerBatch(n) == n + 1

\* lines 178-181: the identifier pushed by iteration i (from 0) of a batch
\* that starts with the index at idx; STRATEGIES[k].id = k + 1 (line 54)
SelectedId(idx, i) == ((idx + i) % STRATEGIES_length) + 1

\* lines 176-186: the loop has no await, so it runs to completion in one
\* turn of the event loop; its net effect on the index and the counters
BatchIndex(idx) == (idx + STRATEGIES_PER_EXECUTION) % STRATEGIES_length
BatchCount(n) == n + STRATEGIES_PER_EXECUTION
BatchEarnings(e) ==
    e + ToUSD(REAL_ETH_PROFIT_PER_TRADE * STRATEGIES_PER_EXECUTION)

\* the gate tests only for an empty wallet
BelowGasFloor_EmptyOnly(balance) == balance <= 0

\* the gate lets a zero balance through
BelowGasFloor_NegativeOnly(balance) == balance < 0

\* line 165: the cycle is skipped when the balance is below the gas floor
BelowGasFloor(balance) == balance < MIN_GAS_ETH

\* the balance check tests only for an empty wallet
InsufficientFunds_EmptyOnly(balance, value) == balance <= 0

\* line 135: transferEth refuses when the balance does not cover the value
InsufficientFunds(balance, value) == balance < value

\* the sweep keeps nothing back for gas
MaxSend_NoFloor(balance) == balance

\* line 331
MaxSend(balance) == balance - RESERVED_FLOOR
\* lines 334-336: no (or a non-positive) amount means sweep
EffectiveAmount(ethAmount, maxSend) ==
    IF ethAmount <= 0 THEN maxSend ELSE ethAmount
\* the rejection forgets the non-positive amounts
WithdrawalRejected_CeilingOnly(ethAmount, maxSend) == ethAmount > maxSend

\* line 338
WithdrawalRejected(ethAmount, maxSend) ==
    ethAmount <= 0 \/ ethAmount > maxSend

\* lines 233-236: the finally block of executeStrategyTrade
FinallyRecord(previous, now) ==
    [kind |-> "object", result |-> previous, timestamp |-> now]

\* lines 223-230: the catch block of executeStrategyTrade
CatchResult(message) ==
    [success |-> FALSE, mode |-> "real_earnings_failed", error |-> message,
     strategiesExecutedInBatch |-> STRATEGIES_PER_EXECUTION,
     aggregatedProfitETH |-> AGGREGATE_PROFIT_ETH]

\* lines 205-218
SuccessResult(earnings, hash, block) ==
    [success |-> TRUE, mode |-> "ultra_high_frequency_internal_deposit",
     strategiesExecutedInBatch |-> STRATEGIES_PER_EXECUTION,
     aggregatedProfitUSD |-> AGGREGATE_PROFIT_USD,
     aggregatedProfitETH |-> AGGREGATE_PROFIT_ETH,
     totalSimulatedEarnings |-> earnings,
     depositRecipient |-> TREASURY, txHash |-> hash, blockNumber |-> block]

\* lines 309-313: POST /execute answers 400 when the result has an error
\* field; a timer tick answers nobody
ExecuteStatus(kind, result) ==
    IF kind = "execute"
    THEN (IF "error" \in DOMAIN result THEN 400 ELSE 200)
    ELSE 0

IsCycle(p) == op[p] \in {"tick", "execute"}

\* ------------------------------------------------- returning from a frame
\* an unhandled rejection ends the Node process: no callback runs after it
Alive == \A q \in Procs : pc[q] # "threw"

\* res.json / res.status(..).json, or the return of executeStrategyTrade
Respond(p, result, status) ==
    /\ pc' = [pc EXCEPT ![p] = "done"]
    /\ ret' = [ret EXCEPT ![p] = result]
    /\ http' = [http EXCEPT ![p] = status]

Return(p, result, status) ==
    /\ Respond(p, result, status)
    /\ UNCHANGED op

\* executeStrategyTrade, catch and finally (lines 220-237)
CycleCatchFinally(p, message) ==
    /\ Return(p, CatchResult(message), ExecuteStatus(op[p], CatchResult(message)))
    /\ lastExecutionResult' = FinallyRecord(lastExecutionResult, clock)
    /\ clock' = clock + 1

\* POST /backend-to-coinbase, catch (lines 361-364)
WithdrawCatch(p, message) ==
    /\ Return(p, [error |-> message], 500)
    /\ UNCHANGED <<lastExecutionResult, clock>>

\* the exception is not caught: the frame ends in an unhandled rejection
Caught_Rethrown(p, message) ==
    /\ pc' = [pc EXCEPT ![p] = "threw"]
    /\ UNCHANGED <<op, ret, http, lastExecutionResult, clock>>

\* an exception thrown inside the caller's try block reaches its catch
\* block (line 220 for a cycle, line 361 for a withdrawal)
Caught(p, message) ==
    IF IsCycle(p) THEN CycleCatchFinally(p, message)
                  ELSE WithdrawCatch(p, message)

\* a transfer that failed is counted as realized all the same
TransferThrow_CountsRealized(p, message) ==
    /\ Caught(p, message)
    /\ totalRealizedToTreasury' = totalRealizedToTreasury + AGGREGATE_PROFIT_USD
    /\ UNCHANGED <<loc, counters>>

\* transferEth throws after one of its awaits
TransferThrow(p, message) ==
    /\ Caught(p, message)
    /\ UNCHANGED <<loc, counters, totalRealizedToTreasury>>

\* transferEth returns {tx, receipt}: lines 201-218 and 231-237 for a cycle,
\* lines 350-359 for a withdrawal.  Reading signer.address throws a
\* TypeError when signer is null (sg is signer # null), inside the try
\* block of either caller.
TransferReturn(p, hash, block, sg) ==
    /\ IF IsCycle(p)
       THEN /\ totalRealizedToTreasury' =
                   totalRealizedToTreasury + AGGREGATE_PROFIT_USD
            /\ IF sg
               THEN /\ LET result == SuccessResult(totalEarnings, hash, block)
                       IN  Return(p, result, ExecuteStatus(op[p], result))
                    /\ lastExecutionResult' =
                           FinallyRecord(lastExecutionResult, clock)
                    /\ clock' = clock + 1
               ELSE Caught(p, "null has no property address")
       ELSE /\ IF sg
               THEN /\ Return(p, [success |-> TRUE, txHash |-> hash,
                                  amount |-> loc[p].ethAmount,
                                  amountUSD |-> ToUSD(loc[p].ethAmount),
                                  from |-> TREASURY, to |-> COINBASE_WALLET,
                                  blockNumber |-> block], 200)
                    /\ UNCHANGED <<lastExecutionResult, clock>>
               ELSE Caught(p, "null has no property address")
            /\ UNCHANGED totalRealizedToTreasury
    /\ UNCHANGED <<loc, counters>>

\* transferEth goes to the fee estimate without reading the balance
TransferEthCall_NoBalanceRead(p, amountETH, recipient, locals, sg, pr) ==
    /\ loc' = [loc EXCEPT ![p] = [locals EXCEPT !.amountETH = amountETH,
                                                !.recipient = recipient]]
    /\ pc' = [pc EXCEPT ![p] = "te_fee"]
    /\ UNCHANGED <<op, ret, http, lastExecutionResult, clock>>

\* transferEth up to its first await (lines 124-129), called with the
\* caller's locals; sg and pr are signer # null and provider # null
TransferEthCall(p, amountETH, recipient, locals, sg, pr) ==
    /\ loc' = [loc EXCEPT ![p] = [locals EXCEPT !.amountETH = amountETH,
                                                !.recipient = recipient]]
    /\ IF ~sg THEN
           Caught(p, "Private key not set")
       ELSE IF ~pr THEN
           Caught(p, "null has no property getBalance")
       ELSE
           /\ pc' = [pc EXCEPT ![p] = "te_balance"]
           /\ UNCHANGED <<op, ret, http, lastExecutionResult, clock>>

\* the cycle deposits the profit of one trade instead of the batch
profitETH_PerTrade == REAL_ETH_PROFIT_PER_TRADE

\* line 188
profitETH == AGGREGATE_PROFIT_ETH

\* ------------------------------------------- executeStrategyTrade, gate on
\* lines 160-172, batch on 174-186, transfer on 198
ExecAfterBalance(p, balance, sg, pr) ==
    IF ~sg THEN
        /\ LET result == [error |-> "Treasury private key not set"]
           IN  Return(p, result, ExecuteStatus(op[p], result))
        /\ loc' = [loc EXCEPT ![p].balance = balance]
        /\ UNCHANGED <<counters, totalRealizedToTreasury,
                       lastExecutionResult, clock>>
    ELSE IF BelowGasFloor(balance) THEN
        /\ LET result == [error |-> "Treasury needs gas funding",
                          treasuryBalance |-> balance,
                          minRequired |-> MIN_GAS_ETH,
                          treasuryWallet |-> TREASURY]
           IN  Return(p, result, ExecuteStatus(op[p], result))
        /\ loc' = [loc EXCEPT ![p].balance = balance]
        /\ UNCHANGED <<counters, totalRealizedToTreasury,
                       lastExecutionResult, clock>>
    ELSE
        /\ currentStrategyIndex' = BatchIndex(currentStrategyIndex)
        /\ totalStrategiesExecuted' = BatchCount(totalStrategiesExecuted)
        /\ totalEarnings' = BatchEarnings(totalEarnings)
        /\ TransferEthCall(p, profitETH, TREASURY,
                           [loc[p] EXCEPT !.balance = balance], sg, pr)
        /\ UNCHANGED totalRealizedToTreasury

\* ------------------------------------ POST /backend-to-coinbase, 331-348
WithdrawAfterBalance(p, balance, sg, pr) ==
    LET maxSend == MaxSend(balance)
        ethAmount == EffectiveAmount(loc[p].ethAmount, maxSend)
    IN  IF WithdrawalRejected(ethAmount, maxSend) THEN
            /\ Return(p, [error |-> "Insufficient withdrawable balance",
                          treasuryBalance |-> balance,
                          maxWithdrawable |-> maxSend], 400)
            /\ loc' = [loc EXCEPT ![p].balance = balance]
            /\ UNCHANGED <<counters, totalRealizedToTreasury,
                           lastExecutionResult, clock>>
        ELSE
            /\ TransferEthCall(p, ethAmount, COINBASE_WALLET,
                               [loc[p] EXCEPT !.balance = balance,
                                              !.ethAmount = ethAmount], sg, pr)
            /\ UNCHANGED <<counters, totalRealizedToTreasury>>

\* ------------------------------------------------ GET /status, 266-288
\* the body of the answer: the fields that read shared state
StatusBody(balance, sg, pr) ==
    [status |-> "online",
     blockchain |-> IF pr THEN "connected" ELSE "disconnected",
     treasuryBalance |-> balance,
     canExecute |-> (balance >= MIN_GAS_ETH /\ sg),
     totalSimulatedEarnings |-> totalEarnings,
     totalRealizedToTreasury |-> totalRealizedToTreasury,
     totalStrategiesExecuted |-> totalStrategiesExecuted,
     lastManualExecutionResult |-> lastExecutionResult]

\* the status read also clears the last record
StatusAfterBalance_ClearsRecord(p, balance, sg, pr) ==
    /\ Return(p, StatusBody(balance, sg, pr), 200)
    /\ loc' = [loc EXCEPT ![p].balance = balance]
    /\ lastExecutionResult' = Null
    /\ UNCHANGED <<counters, totalRealizedToTreasury, clock>>

StatusAfterBalance(p, balance, sg, pr) ==
    /\ Return(p, StatusBody(balance, sg, pr), 200)
    /\ loc' = [loc EXCEPT ![p].balance = balance]
    /\ UNCHANGED <<counters, totalRealizedToTreasury,
                   lastExecutionResult, clock>>

\* GET /earnings, lines 290-299
EarningsBody ==
    [totalSimulatedEarningsUSD |-> totalEarnings,
     totalRealizedToTreasuryUSD |-> totalRealizedToTreasury,
     strategiesPerSecond |-> STRATEGIES_PER_EXECUTION,
     aggregatedProfitETHPerSecond |-> AGGREGATE_PROFIT_ETH,
     totalStrategiesExecuted |-> totalStrategiesExecuted]

\* the caller of getTreasuryBalance resumes with its result
AfterBalance(p, balance, sg, pr) ==
    IF IsCycle(p) THEN ExecAfterBalance(p, balance, sg, pr)
    ELSE IF op[p] = "status" THEN StatusAfterBalance(p, balance, sg, pr)
    ELSE WithdrawAfterBalance(p, balance, sg, pr)

\* getTreasuryBalance up to its first await (lines 110-113), entered with
\* signer and provider as they are now
BalanceCall(p, kind, locals) ==
    /\ pc' = [pc EXCEPT ![p] =
                 IF ~provider \/ ~signer THEN "gtb_init" ELSE "gtb_balance"]
    /\ op' = [op EXCEPT ![p] = kind]
    /\ loc' = [loc EXCEPT ![p] = locals]
    /\ UNCHANGED <<ret, http>>

\* a new call frame: frames are taken in order, while the process lives
Fresh(p) ==
    /\ Alive
    /\ pc[p] = "idle"
    /\ \A q \in Procs : q < p => pc[q] # "idle"

\* ------------------------------------------------------------- actions
\* setInterval(executeStrategyTrade, EXECUTION_RATE_MS) and the immediate
\* first run (lines 247-248): a tick calls executeStrategyTrade whatever
\* the earlier calls are doing
TimerTick(p) ==
    /\ Fresh(p)
    /\ BalanceCall(p, "tick", NoLocals)
    /\ UNCHANGED <<hasKey, connVars, chainVars, counters,
                   totalRealizedToTreasury, lastExecutionResult, clock>>
    /\ UNCHANGED engineVars

\* POST /execute (lines 305-307)
PostExecute(p) ==
    /\ Fresh(p)
    /\ BalanceCall(p, "execute", NoLocals)
    /\ UNCHANGED <<hasKey, connVars, chainVars, counters,
                   totalRealizedToTreasury, lastExecutionResult, clock>>
    /\ UNCHANGED engineVars

\* POST /backend-to-coinbase up to its first await (lines 321-330)
PostWithdraw(p) ==
    /\ Fresh(p)
    /\ \E amountETH \in AmountInputs, amount \in AmountInputs :
          IF ~signer THEN
              /\ Respond(p, [error |-> "Treasury private key not set"], 400)
              /\ op' = [op EXCEPT ![p] = "withdraw"]
              /\ UNCHANGED loc
          ELSE
              BalanceCall(p, "withdraw",
                  [NoLocals EXCEPT !.ethAmount = ParseAmount(amountETH, amount)])
    /\ UNCHANGED <<hasKey, connVars, chainVars, counters,
                   totalRealizedToTreasury, lastExecutionResult, clock>>
    /\ UNCHANGED engineVars

\* GET /status up to its first await (lines 266-267)
GetStatus(p) ==
    /\ Fresh(p)
    /\ BalanceCall(p, "status", NoLocals)
    /\ UNCHANGED <<hasKey, connVars, chainVars, counters,
                   totalRealizedToTreasury, lastExecutionResult, clock>>
    /\ UNCHANGED engineVars

\* GET /earnings (lines 290-299): no await, one turn of the event loop
GetEarnings(p) ==
    /\ Fresh(p)
    /\ Respond(p, EarningsBody, 200)
    /\ op' = [op EXCEPT ![p] = "earnings"]
    /\ UNCHANGED <<hasKey, connVars, chainVars, counters, loc,
                   totalRealizedToTreasury, lastExecutionResult, clock>>
    /\ UNCHANGED engineVars

\* initProvider inside getTreasuryBalance resolves (lines 85-102), and
\* getTreasuryBalance goes on to line 112
InitProviderDone(p) ==
    /\ pc[p] = "gtb_init"
    /\ \/ /\ provider' = TRUE
          /\ signer' = (IF hasKey THEN TRUE ELSE signer)
       \/ /\ provider' = FALSE
          /\ signer' = FALSE
    /\ IF ~signer'
       THEN AfterBalance(p, 0, signer', provider')
       ELSE /\ pc' = [pc EXCEPT ![p] = "gtb_balance"]
            /\ UNCHANGED <<op, loc, ret, http, counters,
                           totalRealizedToTreasury, lastExecutionResult, clock>>
    /\ UNCHANGED <<hasKey, chainVars>>
    /\ UNCHANGED engineVars

\* provider.getBalance inside getTreasuryBalance resolves or rejects
\* (lines 113-117); a rejection is turned into 0
GetBalanceDone(p) ==
    /\ pc[p] = "gtb_balance"
    /\ \/ AfterBalance(p, chainBalance, signer, provider)
       \/ AfterBalance(p, 0, signer, provider)
    /\ UNCHANGED <<hasKey, connVars, chainVars>>
    /\ UNCHANGED engineVars

\* transferEth: provider.getBalance resolves or rejects (lines 129-139)
TeBalanceDone(p) ==
    /\ pc[p] = "te_balance"
    /\ \/ /\ loc' = [loc EXCEPT ![p].teBalance = chainBalance]
          /\ IF InsufficientFunds(chainBalance, loc[p].amountETH) THEN
                 /\ Caught(p, "Insufficient ETH balance")
                 /\ UNCHANGED <<counters, totalRealizedToTreasury>>
             ELSE IF ~provider THEN
                 /\ Caught(p, "null has no property getFeeData")
                 /\ UNCHANGED <<counters, totalRealizedToTreasury>>
             ELSE
                 /\ pc' = [pc EXCEPT ![p] = "te_fee"]
                 /\ UNCHANGED <<op, ret, http, counters,
                                totalRealizedToTreasury,
                                lastExecutionResult, clock>>
       \/ TransferThrow(p, "getBalance failed")
    /\ UNCHANGED <<hasKey, connVars, chainVars>>
    /\ UNCHANGED engineVars

\* transferEth: provider.getFeeData resolves or rejects (lines 139-141)
TeFeeDone(p) ==
    /\ pc[p] = "te_fee"
    /\ \/ IF ~signer THEN
              TransferThrow(p, "null has no property sendTransaction")
          ELSE
              /\ pc' = [pc EXCEPT ![p] = "te_send"]
              /\ UNCHANGED <<op, loc, ret, http, counters,
                             totalRealizedToTreasury, lastExecutionResult, clock>>
       \/ TransferThrow(p, "getFeeData failed")
    /\ UNCHANGED <<hasKey, connVars, chainVars>>
    /\ UNCHANGED engineVars

\* transferEth: signer.sendTransaction resolves with the transaction the
\* network accepted, or rejects (lines 141-149).  A node accepts a transfer
\* only if the balance covers the value and the largest fee.
TeSendDone(p) ==
    /\ pc[p] = "te_send"
    /\ \/ /\ chainBalance >= loc[p].amountETH + MaxGas
          /\ txs' = Append(txs, [from |-> p, to |-> loc[p].recipient,
                                 value |-> loc[p].amountETH,
                                 gasLimit |-> GAS_LIMIT,
                                 status |-> "pending"])
          /\ pc' = [pc EXCEPT ![p] = "te_wait"]
          /\ loc' = [loc EXCEPT ![p].tx = Len(txs) + 1]
          /\ UNCHANGED <<op, ret, http, counters, totalRealizedToTreasury,
                         lastExecutionResult, clock>>
       \/ /\ TransferThrow(p, "sendTransaction failed")
          /\ UNCHANGED txs
    /\ UNCHANGED <<hasKey, connVars, chainBalance, blockHeight>>
    /\ UNCHANGED engineVars

\* the network drops a pending transaction: it will never be mined
TxDropped(p) ==
    /\ pc[p] = "te_wait"
    /\ txs[loc[p].tx].status = "pending"
    /\ txs' = [txs EXCEPT ![loc[p].tx].status = "dropped"]
    /\ UNCHANGED <<hasKey, connVars, chainBalance, blockHeight, counters,
                   totalRealizedToTreasury, lastExecutionResult, clock,
                   frameVars>>
    /\ UNCHANGED engineVars

\* transferEth: tx.wait() resolves with the receipt once the transaction is
\* mined, or rejects when it was replaced (lines 149-150).  tx.wait() is
\* called without a timeout: nothing ends it while the transaction is
\* neither mined nor replaced.
TeWaitDone(p) ==
    /\ pc[p] = "te_wait"
    /\ LET t == loc[p].tx IN
       \/ \E gas \in 1..MaxGas :
             /\ txs[t].status = "pending"
             /\ chainBalance >= txs[t].value + gas
             /\ chainBalance' = chainBalance - gas
                    - (IF txs[t].to = TREASURY THEN 0 ELSE txs[t].value)
             /\ blockHeight' = blockHeight + 1
             /\ txs' = [txs EXCEPT ![t].status = "mined"]
             /\ TransferReturn(p, t, blockHeight + 1, signer)
       \/ /\ txs[t].status = "pending"
          /\ txs' = [txs EXCEPT ![t].status = "replaced"]
          /\ TransferThrow(p, "transaction replaced")
          /\ UNCHANGED <<chainBalance, blockHeight>>
    /\ UNCHANGED <<hasKey, connVars>>
    /\ UNCHANGED engineVars

Step(p) ==
    \/ TimerTick(p)
    \/ PostExecute(p)
    \/ PostWithdraw(p)
    \/ GetStatus(p)
    \/ GetEarnings(p)
    \/ InitProviderDone(p)
    \/ GetBalanceDone(p)
    \/ TeBalanceDone(p)
    \/ TeFeeDone(p)
    \/ TeSendDone(p)
    \/ TxDropped(p)
    \/ TeWaitDone(p)

Next == \E p \in Procs : Step(p)

Spec == Init /\ [][Next]_vars

\* =================================================== the Strategy Engine
\* src/unnamed/part_000.  lines 54-71 of server.js as loaded: the server
\* stands still while the engine runs
ServerLoaded ==
    /\ hasKey = FALSE
    /\ provider = FALSE
    /\ signer = FALSE
    /\ chainBalance = 150
    /\ txs = <<>>
    /\ blockHeight = 1
    /\ currentStrategyIndex = 0
    /\ totalStrategiesExecuted = 0
    /\ totalEarnings = 0
    /\ totalRealizedToTreasury = 0
    /\ lastExecutionResult = Null
    /\ clock = 1
    /\ pc = [p \in Procs |-> "idle"]
    /\ op = [p \in Procs |-> "none"]
    /\ loc = [p \in Procs |-> NoLocals]
    /\ ret = [p \in Procs |-> Null]
    /\ http = [p \in Procs |-> 0]

\* State after the start-up initProvider() has resolved (line 169): lines
\* 75-76 on success, lines 80-81 on failure
MonitorInit ==
    /\ ServerLoaded
    /\ engineProvider \in BOOLEAN
    /\ monitorStatus = (IF engineProvider THEN "connected" ELSE "disconnected")
    /\ currentBlock = 0
    /\ lastMonitorRun = Null
    /\ simulatedReserve = [i \in DOMAIN LIQUIDITY_POOLS |-> 0]
    /\ engineClock = 1
    /\ mpc = [m \in Ticks |-> "idle"]
    /\ blockNum = [m \in Ticks |-> 0]
    /\ answer = Null

\* every reading counts as Healthy
PoolStatus_AlwaysHealthy(reserve) == "Healthy"

\* line 110
PoolStatus(reserve) ==
    IF reserve > HEALTHY_THRESHOLD THEN "Healthy" ELSE "Warning"
\* line 109, simulatedReserve.toFixed(2): hundredths of an ETH, rounded
ToFixed2(reserve) == (reserve + 5) \div 10
\* lines 107-111
PoolReport(name, reserve) ==
    [name |-> name, currentReserve |-> ToFixed2(reserve),
     status |-> PoolStatus(reserve)]
\* lines 114-118
MonitorRecord(now, block, readings) ==
    [kind |-> "object", timestamp |-> now, blockNumber |-> block,
     poolReports |-> [i \in DOMAIN LIQUIDITY_POOLS |->
                         PoolReport(LIQUIDITY_POOLS[i], readings[i])]]

\* a new frame of monitorLiquidityPools: frames are taken in order
FreshTick(m) ==
    /\ mpc[m] = "idle"
    /\ \A n \in Ticks : n < m => mpc[n] # "idle"

\* setInterval(monitorLiquidityPools, 10000) and the immediate first run
\* (lines 135-136), up to the first await: line 93 (with line 64 of
\* initProvider) without a provider, line 98 with one
MonitorTick(m) ==
    /\ FreshTick(m)
    /\ IF ~engineProvider
       THEN /\ monitorStatus' = "connecting"
            /\ mpc' = [mpc EXCEPT ![m] = "init"]
       ELSE /\ mpc' = [mpc EXCEPT ![m] = "block"]
            /\ UNCHANGED monitorStatus
    /\ UNCHANGED <<engineProvider, currentBlock, lastMonitorRun,
                   simulatedReserve, engineClock, blockNum, answer, serverVars>>

\* initProvider inside monitorLiquidityPools resolves (lines 72-82), and
\* the tick goes on to line 94: it returns without a provider, else it
\* calls getBlockNumber (line 98)
MonitorInitDone(m) ==
    /\ mpc[m] = "init"
    /\ \/ /\ engineProvider' = TRUE
          /\ monitorStatus' = "connected"
          /\ mpc' = [mpc EXCEPT ![m] = "block"]
       \/ /\ engineProvider' = FALSE
          /\ monitorStatus' = "disconnected"
          /\ mpc' = [mpc EXCEPT ![m] = "done"]
    /\ UNCHANGED <<currentBlock, lastMonitorRun, simulatedReserve,
                   engineClock, blockNum, answer, serverVars>>

\* lines 98-120: getBlockNumber has resolved with height
MonitorSuccess(m, height, readings) ==
    /\ blockNum' = [blockNum EXCEPT ![m] = height]
    /\ currentBlock' = blockNum'[m]
    /\ simulatedReserve' = readings
    /\ lastMonitorRun' = MonitorRecord(engineClock, currentBlock', readings)
    /\ engineClock' = engineClock + 1
    /\ mpc' = [mpc EXCEPT ![m] = "done"]
    /\ UNCHANGED monitorStatus

\* a failed read also resets the block height
MonitorFailure_ResetsBlock(m) ==
    /\ monitorStatus' = "error"
    /\ currentBlock' = 0
    /\ mpc' = [mpc EXCEPT ![m] = "done"]
    /\ UNCHANGED <<simulatedReserve, lastMonitorRun, engineClock, blockNum>>

\* lines 122-125: getBlockNumber has rejected
MonitorFailure(m) ==
    /\ monitorStatus' = "error"
    /\ mpc' = [mpc EXCEPT ![m] = "done"]
    /\ UNCHANGED <<currentBlock, simulatedReserve, lastMonitorRun,
                   engineClock, blockNum>>

\* provider.getBlockNumber() resolves or rejects (line 98)
MonitorBlockDone(m) ==
    /\ mpc[m] = "block"
    /\ \/ \E height \in Heights,
             readings \in [DOMAIN LIQUIDITY_POOLS -> Reserves] :
             MonitorSuccess(m, height, readings)
       \/ MonitorFailure(m)
    /\ UNCHANGED <<engineProvider, answer, serverVars>>

\* GET / (lines 143-151)
EngineGetRoot ==
    /\ answer' = [status |-> monitorStatus, currentBlock |-> currentBlock]
    /\ UNCHANGED <<engineProvider, currentBlock, monitorStatus, lastMonitorRun,
                   simulatedReserve, engineClock, mpc, blockNum, serverVars>>

\* GET /liquidity-status (lines 153-162)
GetLiquidityStatus ==
    /\ answer' = [status |-> monitorStatus,
                  blockchainConnection |->
                      IF engineProvider THEN "robust_connected"
                                        ELSE "disconnected",
                  currentBlock |-> currentBlock,
                  lastReport |-> lastMonitorRun,
                  monitoredPoolsCount |-> Len(LIQUIDITY_POOLS)]
    /\ UNCHANGED <<engineProvider, currentBlock, monitorStatus, lastMonitorRun,
                   simulatedReserve, engineClock, mpc, blockNum, serverVars>>

MonitorNext ==
    \/ \E m \in Ticks : MonitorTick(m)
    \/ \E m \in Ticks : MonitorInitDone(m)
    \/ \E m \in Ticks : MonitorBlockDone(m)
    \/ EngineGetRoot
    \/ GetLiquidityStatus

MonitorSpec == MonitorInit /\ [][MonitorNext]_vars

\* ================================================================ claims
BalancePcs == {"gtb_init", "gtb_balance"}
TransferPcs == {"te_balance", "te_fee", "te_send", "te_wait"}
\* a frame between transferEth's balance read and the end of its wait
InFlight(p) == pc[p] \in {"te_fee", "te_send", "te_wait"}
\* a settlement cycle that returned from the pre-condition gate
Skipped(p) == IsCycle(p) /\ pc[p] = "done" /\ "success" \notin DOMAIN ret[p]
\* a settlement cycle that passed the gate and returned
Finished(p) == IsCycle(p) /\ pc[p] = "done" /\ "success" \in DOMAIN ret[p]

\* C1: at most one transferEth call is between its balance read and the
\* end of its confirmation wait, whatever the interleaving of ticks,
\* manual cycles and withdrawals.
C1_OneTransferInFlight ==
    Cardinality({p \in Procs : InFlight(p)}) <= 1

\* C2: a transferEth call that read a balance smaller than its amount neither
\* goes on to the fee read, the submission or the wait, nor submits a
\* transaction: it ends with the insufficient-funds error.
C2_NoSubmitWhenInsufficient ==
    \A p \in Procs :
        (loc[p].teBalance >= 0 /\ loc[p].amountETH > loc[p].teBalance) =>
            /\ pc[p] = "done"
            /\ ret[p].error = "Insufficient ETH balance"
            /\ loc[p].tx = 0
            /\ \A i \in DOMAIN txs : txs[i].from # p

C2_Witness ==
    \E p \in Procs :
        /\ pc[p] = "done"
        /\ loc[p].teBalance >= 0
        /\ loc[p].amountETH > loc[p].teBalance
        /\ loc[p].tx = 0

\* C3: a tick that fires while an earlier settlement cycle's transfer is
\* submitted or awaiting confirmation starts no new cycle.
C3_TickSkippedWhilePending ==
    [][\A p \in Procs :
          (pc[p] = "idle" /\ op'[p] = "tick") =>
              ~ \E q \in Procs :
                    IsCycle(q) /\ pc[q] \in {"te_send", "te_wait"}]_vars

\* C4: the step in which a cycle passes the gate advances totalEarnings and
\* totalStrategiesExecuted by one batch and currentStrategyIndex by the batch
\* size modulo the roster size, and no other step changes them; the step in
\* which a cycle's transfer fails leaves totalRealizedToTreasury unchanged.
PassesGate(p) ==
    /\ IsCycle(p)
    /\ pc[p] \in BalancePcs
    /\ \/ pc'[p] = "te_balance"
       \/ pc'[p] = "done" /\ "success" \in DOMAIN ret'[p]
TransferFails(p) ==
    /\ IsCycle(p)
    /\ pc[p] \in TransferPcs
    /\ pc'[p] = "done"
    /\ loc[p].tx = 0 \/ txs'[loc[p].tx].status # "mined"
C4_FailedCycleCounters ==
    [][/\ IF \E p \in Procs : PassesGate(p)
          THEN /\ totalEarnings' = totalEarnings + AGGREGATE_PROFIT_USD
               /\ totalStrategiesExecuted' =
                      totalStrategiesExecuted + STRATEGIES_PER_EXECUTION
               /\ currentStrategyIndex' =
                      (currentStrategyIndex + STRATEGIES_PER_EXECUTION)
                          % STRATEGIES_length
          ELSE UNCHANGED counters
       /\ \A p \in Procs :
             TransferFails(p) =>
                 /\ totalRealizedToTreasury' = totalRealizedToTreasury
                 /\ ret'[p].success = FALSE]_vars

C4_Witness ==
    \E p \in Procs :
        /\ Finished(p)
        /\ ret[p].success = FALSE
        /\ totalRealizedToTreasury = 0
        /\ totalStrategiesExecuted = STRATEGIES_PER_EXECUTION
        /\ totalEarnings = AGGREGATE_PROFIT_USD
        /\ currentStrategyIndex = STRATEGIES_PER_EXECUTION % STRATEGIES_length

\* C5: a cycle goes past the gate only with a signer and with a balance
\* read of at least the gas floor; otherwise it returns an error result,
\* submits nothing and leaves the counters, the realized total and the last
\* record as they were.
C5_GateSkips ==
    [][\A p \in Procs :
          (IsCycle(p) /\ pc[p] \in BalancePcs) =>
              /\ PassesGate(p) =>
                     signer' /\ loc'[p].balance >= MIN_GAS_ETH
              /\ (pc'[p] = "done" /\ ~PassesGate(p)) =>
                     /\ "error" \in DOMAIN ret'[p]
                     /\ ~signer' \/ loc'[p].balance < MIN_GAS_ETH
                     /\ loc'[p].recipient = "none"
                     /\ txs' = txs
                     /\ UNCHANGED <<counters, totalRealizedToTreasury,
                                    lastExecutionResult>>]_vars

C5_Witness ==
    \E p \in Procs :
        /\ Skipped(p)
        /\ signer
        /\ ret[p].error = "Treasury needs gas funding"
        /\ ret[p].treasuryBalance > 0

\* C6: a withdrawal with no amount, or with a non-positive one, that read
\* the balance B with B - F > 0 calls transferEth with the amount B - F and
\* the Coinbase address.
LeavesBalanceRead(p) ==
    /\ op[p] = "withdraw"
    /\ pc[p] \in BalancePcs
    /\ pc'[p] \notin BalancePcs
C6_SweepAmount ==
    [][\A p \in Procs :
          (/\ LeavesBalanceRead(p)
           /\ loc[p].ethAmount <= 0
           /\ loc'[p].balance - RESERVED_FLOOR > 0) =>
              /\ loc'[p].amountETH = loc'[p].balance - RESERVED_FLOOR
              /\ loc'[p].recipient = COINBASE_WALLET]_vars

C6_Witness ==
    \E p \in Procs :
        /\ op[p] = "withdraw"
        /\ pc[p] = "te_wait"
        /\ loc[p].balance - RESERVED_FLOOR > 0
        /\ loc[p].amountETH = loc[p].balance - RESERVED_FLOOR
        /\ txs[loc[p].tx].to = COINBASE_WALLET
        /\ txs[loc[p].tx].value = loc[p].balance - RESERVED_FLOOR

\* C7: a withdrawal whose effective amount is not positive or is above the
\* balance less the reserved floor is answered 400 with the balance and the
\* ceiling, and transferEth is not called for it.
C7_WithdrawalRejected ==
    [][\A p \in Procs :
          LeavesBalanceRead(p) =>
              LET B == loc'[p].balance
                  ceiling == B - RESERVED_FLOOR
                  effective == IF loc[p].ethAmount <= 0 THEN ceiling
                                                        ELSE loc[p].ethAmount
              IN  (effective <= 0 \/ effective > ceiling) =>
                      /\ pc'[p] = "done"
                      /\ http'[p] = 400
                      /\ ret'[p].treasuryBalance = B
                      /\ ret'[p].maxWithdrawable = ceiling
                      /\ loc'[p].recipient = "none"
                      /\ txs' = txs]_vars

C7_Witness ==
    \E p \in Procs :
        /\ op[p] = "withdraw"
        /\ pc[p] = "done"
        /\ http[p] = 400
        /\ loc[p].ethAmount > 0
        /\ ret[p].maxWithdrawable > 0
        /\ loc[p].ethAmount > ret[p].maxWithdrawable

\* C8: when a cycle ends Settled or Failed, the last record holds that
\* cycle's result and timestamp, and nothing of any earlier cycle.
C8_LastRecordDescribesCycle ==
    [][\A p \in Procs :
          (IsCycle(p) /\ pc[p] # "done" /\ pc'[p] = "done"
                      /\ "success" \in DOMAIN ret'[p]) =>
              lastExecutionResult' =
                  [kind |-> "object", result |-> ret'[p],
                   timestamp |-> clock]]_vars

\* C9: a frame waiting for the confirmation of its transaction can always
\* end the wait, also when the network never mines the transaction.
C9_ConfirmationWaitEnds ==
    \A p \in Procs : pc[p] = "te_wait" => ENABLED TeWaitDone(p)

\* C10: no frame ends in an unhandled exception, every settlement cycle that
\* ends has returned a structured result, and a tick can start a new cycle
\* whatever the earlier cycles returned.
C10_SchedulerSurvives ==
    /\ \A p \in Procs : pc[p] # "threw"
    /\ \A p \in Procs :
          (IsCycle(p) /\ pc[p] = "done") =>
              \/ "error" \in DOMAIN ret[p]
              \/ "success" \in DOMAIN ret[p] /\ ret[p].success
    /\ \A p \in Procs :
          (pc[p] = "idle" /\ \A q \in Procs : q < p => pc[q] # "idle") =>
              ENABLED TimerTick(p)

C10_Witness ==
    \E p, q \in Procs :
        /\ p < q
        /\ Finished(p) /\ ret[p].success = FALSE
        /\ op[q] = "tick" /\ Finished(q) /\ ret[q].success

\* C12: every withdrawal transfer that the network accepts has an amount of
\* at most the treasury balance at that moment less the reserved floor.
C12_SubmittedWithinFloor ==
    [][\A p \in Procs :
          (op[p] = "withdraw" /\ pc[p] = "te_send" /\ pc'[p] = "te_wait") =>
              loc[p].amountETH <= chainBalance - RESERVED_FLOOR]_vars

\* C13: a transferEth call reads the balance, checks it, reads the fee
\* estimate, submits with the fixed gas limit and waits, in that order; a
\* transaction is submitted only by a call whose own balance check passed,
\* and a call that failed takes no further step.
Moves(p, from, to) == pc[p] = from /\ pc'[p] = to
C13_TransferStepOrder ==
    [][/\ \A p \in Procs :
             /\ (pc'[p] = "te_balance" /\ pc[p] # "te_balance") =>
                    pc[p] \in BalancePcs /\ loc'[p].teBalance = -1
             /\ (pc'[p] = "te_fee" /\ pc[p] # "te_fee") =>
                    /\ pc[p] = "te_balance"
                    /\ loc'[p].teBalance = chainBalance
                    /\ loc'[p].teBalance >= loc'[p].amountETH
             /\ (pc'[p] = "te_send" /\ pc[p] # "te_send") => pc[p] = "te_fee"
             /\ (pc'[p] = "te_wait" /\ pc[p] # "te_wait") =>
                    /\ pc[p] = "te_send"
                    /\ loc[p].teBalance >= loc[p].amountETH
                    /\ Len(txs') = Len(txs) + 1
                    /\ loc'[p].tx = Len(txs')
                    /\ txs'[Len(txs')].from = p
                    /\ txs'[Len(txs')].value = loc[p].amountETH
                    /\ txs'[Len(txs')].gasLimit = GAS_LIMIT
             /\ pc[p] = "done" =>
                    pc'[p] = "done" /\ loc'[p] = loc[p] /\ ret'[p] = ret[p]
       /\ Len(txs') # Len(txs) =>
             \E p \in Procs : Moves(p, "te_send", "te_wait")]_vars

C13_Witness ==
    \E p \in Procs :
        /\ pc[p] = "done"
        /\ loc[p].teBalance >= loc[p].amountETH
        /\ loc[p].tx > 0
        /\ txs[loc[p].tx].status = "mined"
        /\ txs[loc[p].tx].gasLimit = GAS_LIMIT

\* C14: totalRealizedToTreasury is AGGREGATE_PROFIT_USD times the number of
\* cycles whose transfer was mined; it changes only in the step in which a
\* cycle's confirmation wait resolves with the mined transaction, and then by
\* exactly AGGREGATE_PROFIT_USD; no step of a withdrawal, of a status or
\* earnings read, of a cycle skipped at the gate or of a cycle whose
\* transfer failed changes it.
ConfirmedCycles ==
    Cardinality({i \in 1..Len(txs) :
                    txs[i].status = "mined" /\ IsCycle(txs[i].from)})
Confirms(p) ==
    /\ IsCycle(p)
    /\ Moves(p, "te_wait", "done")
    /\ txs[loc[p].tx].status = "pending"
    /\ txs'[loc[p].tx].status = "mined"
C14_RealizedAccounting ==
    /\ [](totalRealizedToTreasury = AGGREGATE_PROFIT_USD * ConfirmedCycles)
    /\ [][/\ totalRealizedToTreasury' # totalRealizedToTreasury =>
                /\ \E p \in Procs : Confirms(p)
                /\ totalRealizedToTreasury' =
                       totalRealizedToTreasury + AGGREGATE_PROFIT_USD
          /\ \A p \in Procs :
                \/ pc'[p] = pc[p]
                \/ Confirms(p)
                \/ totalRealizedToTreasury' = totalRealizedToTreasury]_vars

C14_Witness ==
    /\ totalRealizedToTreasury = AGGREGATE_PROFIT_USD
    /\ ConfirmedCycles = 1
    /\ \E q \in Procs :
          /\ op[q] = "status"
          /\ pc[q] = "done"
          /\ ret[q].totalRealizedToTreasury = AGGREGATE_PROFIT_USD

\* C15: a cycle that passed the gate has called transferEth with the
\* aggregate profit of the batch and the treasury's own address, in the step
\* in which it passed the gate; it has submitted at most one transaction,
\* of that amount to that address, and it never goes back to the balance
\* read or to the submission of transferEth.
PastGate(p) ==
    /\ IsCycle(p)
    /\ \/ pc[p] \in TransferPcs
       \/ pc[p] = "done" /\ "success" \in DOMAIN ret[p]
SubmittedBy(p) == {i \in 1..Len(txs) : txs[i].from = p}
C15_OneSelfTransfer ==
    /\ [](\A p \in Procs :
             PastGate(p) =>
                 /\ loc[p].amountETH = AGGREGATE_PROFIT_ETH
                 /\ loc[p].recipient = TREASURY
                 /\ Cardinality(SubmittedBy(p)) <= 1
                 /\ \A i \in SubmittedBy(p) :
                        /\ txs[i].value = AGGREGATE_PROFIT_ETH
                        /\ txs[i].to = TREASURY)
    /\ [][\A p \in Procs :
             IsCycle(p) =>
                 /\ PassesGate(p) =>
                        /\ loc[p].recipient = "none"
                        /\ loc'[p].recipient = TREASURY
                        /\ loc'[p].amountETH = AGGREGATE_PROFIT_ETH
                 /\ pc[p] \in TransferPcs \cup {"done"} =>
                        \/ pc'[p] = pc[p]
                        \/ pc'[p] \notin BalancePcs \cup {"te_balance"}
                 /\ pc[p] \in {"te_wait", "done"} => pc'[p] # "te_send"]_vars

C15_Witness ==
    \E p \in Procs :
        /\ IsCycle(p)
        /\ pc[p] = "done"
        /\ "success" \in DOMAIN ret[p] /\ ret[p].success
        /\ SubmittedBy(p) = {loc[p].tx}
        /\ txs[loc[p].tx].value = AGGREGATE_PROFIT_ETH
        /\ txs[loc[p].tx].to = TREASURY

\* C16: in every state currentStrategyIndex = totalStrategiesExecuted modulo
\* the roster size; the index and the count move only in the step in which
\* a cycle runs its batch, whichever of the timer and POST /execute started
\* it; within a batch each selection is the successor of the one before, the
\* first roster-size run of selections is the whole roster, and the first
\* selection of the next batch is the successor of the last of this one.
SuccId(id) == (id % STRATEGIES_length) + 1
C16_RoundRobin ==
    /\ [](currentStrategyIndex = totalStrategiesExecuted % STRATEGIES_length)
    /\ [][IF \E p \in Procs : PassesGate(p)
          THEN /\ \A i \in 0..(STRATEGIES_length - 1) :
                     SelectedId(currentStrategyIndex, i + 1) =
                         SuccId(SelectedId(currentStrategyIndex, i))
               /\ {SelectedId(currentStrategyIndex, i) :
                      i \in 0..(STRATEGIES_length - 1)} = 1..STRATEGIES_length
               /\ SelectedId(currentStrategyIndex', 0) =
                      SuccId(SelectedId(currentStrategyIndex,
                                        STRATEGIES_PER_EXECUTION - 1))
               /\ totalStrategiesExecuted' =
                      totalStrategiesExecuted + STRATEGIES_PER_EXECUTION
          ELSE /\ currentStrategyIndex' = currentStrategyIndex
               /\ totalStrategiesExecuted' = totalStrategiesExecuted]_vars

C16_Witness ==
    /\ totalStrategiesExecuted = 2 * STRATEGIES_PER_EXECUTION
    /\ currentStrategyIndex = (2 * STRATEGIES_PER_EXECUTION) % STRATEGIES_length
    /\ currentStrategyIndex # 0
    /\ \E p, q \in Procs : op[p] = "tick" /\ op[q] = "execute"

\* C17: a step of a GET /status or GET /earnings frame leaves totalEarnings,
\* totalRealizedToTreasury, totalStrategiesExecuted, currentStrategyIndex
\* and lastExecutionResult unchanged, and the record a status answer carries
\* is the whole last record as it stands in that step: null, or an object
\* with both of its fields.
IsRead(p) == op'[p] \in {"status", "earnings"} /\ pc'[p] # pc[p]
WholeRecord(r) ==
    r = Null \/ (r.kind = "object" /\ DOMAIN r = {"kind", "result", "timestamp"})
C17_ReadsMutationFree ==
    [][\A p \in Procs :
          IsRead(p) =>
              /\ UNCHANGED <<totalEarnings, totalRealizedToTreasury,
                             totalStrategiesExecuted, currentStrategyIndex,
                             lastExecutionResult>>
              /\ (op'[p] = "status" /\ pc'[p] = "done") =>
                     /\ ret'[p].lastManualExecutionResult = lastExecutionResult
                     /\ WholeRecord(ret'[p].lastManualExecutionResult)
                     /\ ret'[p].totalSimulatedEarnings = totalEarnings
                     /\ ret'[p].totalRealizedToTreasury = totalRealizedToTreasury
                     /\ ret'[p].totalStrategiesExecuted = totalStrategiesExecuted
              /\ op'[p] = "earnings" =>
                     /\ ret'[p].totalSimulatedEarningsUSD = totalEarnings
                     /\ ret'[p].totalRealizedToTreasuryUSD =
                            totalRealizedToTreasury
                     /\ ret'[p].totalStrategiesExecuted =
                            totalStrategiesExecuted]_vars

C17_Witness ==
    \E p, q \in Procs :
        /\ op[p] = "status"
        /\ pc[p] = "done"
        /\ ret[p].lastManualExecutionResult # Null
        /\ ret[p].lastManualExecutionResult = lastExecutionResult
        /\ IsCycle(q)
        /\ ret[p].totalStrategiesExecuted = STRATEGIES_PER_EXECUTION

\* C19 as stated: when getTreasuryBalance yields 0 for a failed balance
\* query, a cycle returns the gas-funding result of the gas floor with the
\* counters unchanged, a withdrawal is rejected with the
\* insufficient-withdrawable-balance result, and nothing is submitted.
ReadFailed(p) ==
    /\ pc[p] \in BalancePcs
    /\ pc'[p] \notin BalancePcs
    /\ loc'[p].balance = 0
    /\ chainBalance # 0
NothingDone(p) ==
    /\ pc'[p] = "done"
    /\ "error" \in DOMAIN ret'[p]
    /\ loc'[p].recipient = "none"
    /\ UNCHANGED <<txs, counters, totalRealizedToTreasury,
                   lastExecutionResult>>
WithdrawalRefused(p) ==
    /\ NothingDone(p)
    /\ ret'[p].error = "Insufficient withdrawable balance"
    /\ ret'[p].treasuryBalance = 0
    /\ http'[p] = 400
C19_ReadFailureSkipsAsGasFloor ==
    [][\A p \in Procs :
          ReadFailed(p) =>
              /\ IsCycle(p) =>
                     /\ NothingDone(p)
                     /\ ret'[p].error = "Treasury needs gas funding"
              /\ op[p] = "withdraw" => WithdrawalRefused(p)]_vars

\* C19 amended: when getTreasuryBalance yields 0 for a failed balance query,
\* a cycle is skipped with the counters unchanged, with the
\* private-key-not-set result if the signer is then unavailable and with the
\* gas-funding result of the gas floor if it is available; a withdrawal is
\* rejected with the insufficient-withdrawable-balance result; nothing is
\* submitted in either case.
C19_ReadFailureSkips ==
    [][\A p \in Procs :
          ReadFailed(p) =>
              /\ IsCycle(p) =>
                     /\ NothingDone(p)
                     /\ ret'[p].error =
                            IF signer' THEN "Treasury needs gas funding"
                                       ELSE "Treasury private key not set"
              /\ op[p] = "withdraw" => WithdrawalRefused(p)]_vars

C19_Witness ==
    /\ hasKey
    /\ ~signer
    /\ txs = <<>>
    /\ totalStrategiesExecuted = 0
    /\ \E p \in Procs :
          /\ IsCycle(p) /\ pc[p] = "done" /\ loc[p].balance = 0
          /\ ret[p].error = "Treasury private key not set"

\* C18 as stated: every monitor tick, when it ends, has published one
\* MonitorRecord over the previous one, with the block height it read and
\* one report per configured pool, Healthy for a reading above 10500 and
\* Warning otherwise; no other step of the engine touches the record.
Ends(m) == mpc[m] # "done" /\ mpc'[m] = "done"
ReadSucceeded(m) == Ends(m) /\ blockNum'[m] # 0
Publishes(m) ==
    /\ lastMonitorRun' # lastMonitorRun
    /\ lastMonitorRun'.kind = "object"
    /\ lastMonitorRun'.timestamp = engineClock
    /\ lastMonitorRun'.blockNumber = blockNum'[m]
    /\ DOMAIN lastMonitorRun'.poolReports = DOMAIN LIQUIDITY_POOLS
    /\ \A i \in DOMAIN LIQUIDITY_POOLS :
          /\ lastMonitorRun'.poolReports[i].name = LIQUIDITY_POOLS[i]
          /\ lastMonitorRun'.poolReports[i].status =
                 IF simulatedReserve'[i] > 10500 * ReservePerEth
                 THEN "Healthy" ELSE "Warning"
C18_EveryTickPublishes ==
    [][/\ \A m \in Ticks : Ends(m) => Publishes(m)
       /\ lastMonitorRun' # lastMonitorRun => \E m \in Ticks : Ends(m)]_vars

\* C18 amended: a monitor tick whose block-height read succeeded has, when
\* it ends, published one MonitorRecord over the previous one, with the
\* block height it read and one report per configured pool, Healthy for a
\* reading above 10500 and Warning otherwise; a tick that ends without a
\* provider or with a failed read publishes nothing, and no other step of
\* the engine touches the record.
C18_SuccessfulTickPublishes ==
    [][/\ \A m \in Ticks : ReadSucceeded(m) => Publishes(m)
       /\ lastMonitorRun' # lastMonitorRun =>
             \E m \in Ticks : ReadSucceeded(m)]_vars

C18_Witness ==
    /\ lastMonitorRun # Null
    /\ lastMonitorRun.timestamp = 2
    /\ lastMonitorRun.blockNumber = currentBlock
    /\ simulatedReserve[1] = HEALTHY_THRESHOLD
    /\ lastMonitorRun.poolReports[1].status = "Warning"
    /\ simulatedReserve[2] = HEALTHY_THRESHOLD + 4
    /\ lastMonitorRun.poolReports[2].status = "Healthy"
    /\ lastMonitorRun.poolReports[2].currentReserve =
           lastMonitorRun.poolReports[1].currentReserve

\* C20: the step in which a monitor tick ends with its block height read
\* and its MonitorRecord published leaves monitorStatus at 'connected'.
C20_StatusRecovers ==
    [][\A m \in Ticks :
          ReadSucceeded(m) => monitorStatus' = "connected"]_vars

\* C21: in every state, and in every answer of GET /liquidity-status, a
\* non-null lastMonitorRun carries the block number that currentBlock
\* holds; a tick that ends without a block height read changes neither
\* currentBlock nor lastMonitorRun.
TickFailed(m) == Ends(m) /\ blockNum'[m] = 0
C21_SnapshotConsistent ==
    /\ [](/\ lastMonitorRun # Null =>
                lastMonitorRun.blockNumber = currentBlock
          /\ (answer # Null /\ "lastReport" \in DOMAIN answer
                 /\ answer.lastReport # Null) =>
                answer.lastReport.blockNumber = answer.currentBlock)
    /\ [][\A m \in Ticks :
             TickFailed(m) => UNCHANGED <<currentBlock, lastMonitorRun>>]_vars

C21_Witness ==
    /\ lastMonitorRun # Null
    /\ lastMonitorRun.blockNumber = currentBlock
    /\ monitorStatus = "error"
    /\ \E m, n \in Ticks :
          /\ mpc[m] = "done" /\ blockNum[m] = currentBlock
          /\ mpc[n] = "done" /\ blockNum[n] = 0
    /\ "lastReport" \in DOMAIN answer
    /\ answer.lastReport = lastMonitorRun
    /\ answer.status = "error"

====
